---- MODULE Spec2Model ----
(***************************************************************************)
(* Model of src/api/service.py: the Service orchestrator of the ComfyUI    *)
(* server (text2img and img2img), run as asyncio coroutines against one    *)
(* shared backend client (comfy_client).                                   *)
(*                                                                         *)
(* Strings are sequences of one-character strings, so that substitution    *)
(* and JSON parsing are computed character by character.                   *)
(* An action is the code a coroutine runs between two suspension points    *)
(* (await): asyncio runs that code atomically with respect to the other    *)
(* coroutines.  The backend client (module comfy) and the templates        *)
(* (module workflows) are collaborators whose code is outside              *)
(* service.py; they are modelled from their contract.                      *)
(***************************************************************************)
EXTENDS Integers, Sequences, FiniteSets, TLC

\* ------------------------------------------------------------------ bounds
NumReqs == 2        \* concurrent operations

Reqs == 1 .. NumReqs

\* ------------------------------------------------------------------ state
VARIABLES
    pc,              \* where each operation's coroutine is
    kind,            \* "text2img" or "img2img", once the operation is called
    client_task_id,  \* the caller's correlation identifier
    params,          \* the caller's params dict: text and image
    image_path,      \* img2img's local image_path
    prompt_json,     \* the local prompt_json
    reply,           \* the backend's answer to the call the coroutine awaits
    pending,         \* the outcome of the try block while finally runs
    result,          \* what reached the caller: a record or an exception
    calls,           \* the backend calls each operation has made, in order
    cancelled,       \* where a cancellation was delivered first, if any
    store,           \* backend: path -> the operation whose upload created the file
    asset,           \* backend: the path of the file each operation's upload created
    jobs             \* backend: the accepted jobs

\* ------------------------------------------------------------------ values
\* Python's None, as a value no string is equal to.
NoneVal == << "<None>" >>

\* str(x) as string.Template.substitute applies it to a mapping value.
PyStr(x) == IF x = NoneVal THEN << "N", "o", "n", "e" >> ELSE x

\* params.get('text'): the caller's prompt string (required, may be empty):
\* empty, plain, and the two characters special to JSON strings.
Texts == { << >>, << "a" >>, << "\"" >>, << "\\" >> }

\* ------------------------------------------------------------------ templates
Lit(s) == [ lit |-> s ]
Ph(n)  == [ ph |-> n ]
IsPh(item) == "ph" \in DOMAIN item

\* {"t":"$text"}
TEXT2IMG_PROMPT_TEMPLATE ==
    << Lit(<< "{", "\"", "t", "\"", ":", "\"" >>), Ph("text"),
       Lit(<< "\"", "}" >>) >>

\* {"t":"$text","i":"$image"}
IMG2IMG_PROMPT_TEMPLATE ==
    << Lit(<< "{", "\"", "t", "\"", ":", "\"" >>), Ph("text"),
       Lit(<< "\"", ",", "\"", "i", "\"", ":", "\"" >>), Ph("image"),
       Lit(<< "\"", "}" >>) >>

\* string.Template.substitute(**mapping): every placeholder is replaced by
\* str() of its value, verbatim; a placeholder without a value raises KeyError.
RECURSIVE SubstituteFrom(_, _, _, _)
SubstituteFrom(template, mapping, i, acc) ==
    IF i > Len(template) THEN [ ok |-> TRUE, str |-> acc ]
    ELSE LET item == template[i]
         IN  IF IsPh(item)
             THEN IF item.ph \in DOMAIN mapping
                  THEN SubstituteFrom(template, mapping, i + 1,
                                      acc \o PyStr(mapping[item.ph]))
                  ELSE [ ok |-> FALSE, exc |-> "KeyError" ]
             ELSE SubstituteFrom(template, mapping, i + 1, acc \o item.lit)

Substitute(template, mapping) == SubstituteFrom(template, mapping, 1, << >>)

\* ------------------------------------------------------------------ json.loads
JsonFail == [ ok |-> FALSE, exc |-> "JSONDecodeError" ]

SimpleEscapes == { "\"", "\\", "/" }

\* The body of a JSON string from position i (after the opening quote) to its
\* closing quote; an escape \" \\ \/ stands for the escaped character.
RECURSIVE ScanString(_, _, _)
ScanString(s, i, acc) ==
    IF i > Len(s) THEN JsonFail
    ELSE IF s[i] = "\"" THEN [ ok |-> TRUE, val |-> acc, next |-> i + 1 ]
    ELSE IF s[i] = "\\"
         THEN IF i + 1 <= Len(s) /\ s[i + 1] \in SimpleEscapes
              THEN ScanString(s, i + 2, Append(acc, s[i + 1]))
              ELSE JsonFail
    ELSE ScanString(s, i + 1, Append(acc, s[i]))

CharAt(s, i) == IF i <= Len(s) THEN s[i] ELSE "<EOF>"

\* "key":"value" members of an object from position i, up to the closing
\* brace, which must end the document.
RECURSIVE ParseMembers(_, _, _)
ParseMembers(s, i, acc) ==
    IF CharAt(s, i) # "\"" THEN JsonFail
    ELSE LET k == ScanString(s, i + 1, << >>)
         IN  IF ~k.ok THEN JsonFail
             ELSE IF CharAt(s, k.next) # ":" \/ CharAt(s, k.next + 1) # "\""
                  THEN JsonFail
             ELSE LET v == ScanString(s, k.next + 2, << >>)
                  IN  IF ~v.ok THEN JsonFail
                      ELSE LET acc2 == Append(acc, << k.val, v.val >>)
                           IN  IF CharAt(s, v.next) = ","
                               THEN ParseMembers(s, v.next + 1, acc2)
                               ELSE IF CharAt(s, v.next) = "}" /\ v.next = Len(s)
                                    THEN [ ok |-> TRUE, val |-> acc2 ]
                                    ELSE JsonFail

\* json.loads(s) for a document that is an object of string members.
JsonLoads(s) ==
    IF CharAt(s, 1) # "{" THEN JsonFail
    ELSE IF CharAt(s, 2) = "}"
         THEN IF Len(s) = 2 THEN [ ok |-> TRUE, val |-> << >> ] ELSE JsonFail
         ELSE ParseMembers(s, 2, << >>)

\* Render on a parsed template that all requests share and fill in place:
\* once a job has been accepted, a member of it is still there.
Render_SharedDict(template, mapping) ==
    LET sub == Substitute(template, mapping)
        doc == IF sub.ok THEN JsonLoads(sub.str) ELSE sub
    IN  IF doc.ok /\ jobs # { }
        THEN [ doc EXCEPT !.val = Append(@, << << "n" >>, << "a" >> >>) ]
        ELSE doc

\* prompt_str = TEMPLATE.substitute(...); prompt_json = json.loads(prompt_str)
Render(template, mapping) ==
    LET sub == Substitute(template, mapping)
    IN  IF sub.ok THEN JsonLoads(sub.str) ELSE sub

\* ------------------------------------------------------------------ base64
\* params.get('image'): None when the key is absent, else the caller's string.
Images == { NoneVal, << "Q", "Q" >>, << "Q", "Q", "=", "=" >> }

B64Value(c) == CASE c = "A" -> 0 [] c = "Q" -> 16 [] OTHER -> 64

\* binascii.a2b_base64 in its default, non-strict mode: characters outside
\* the alphabet are skipped, "=" ends the data once a quad has two or more
\* characters and the padding completes it, and data that stops inside a quad
\* is an error.  q is the position in the quad, left the bits carried over.
RECURSIVE A2B(_, _, _, _, _, _)
A2B(s, i, q, left, pads, out) ==
    IF i > Len(s)
    THEN IF q = 0 THEN [ ok |-> TRUE, bytes |-> out ]
         ELSE [ ok |-> FALSE, exc |-> "binascii.Error" ]
    ELSE IF s[i] = "="
         THEN IF q >= 2 /\ q + pads + 1 >= 4
              THEN [ ok |-> TRUE, bytes |-> out ]
              ELSE A2B(s, i + 1, q, left, pads + 1, out)
    ELSE LET v == B64Value(s[i])
         IN  IF v >= 64 THEN A2B(s, i + 1, q, left, pads, out)
             ELSE CASE q = 0 -> A2B(s, i + 1, 1, v, 0, out)
                    [] q = 1 -> A2B(s, i + 1, 2, v % 16, 0,
                                    Append(out, left * 4 + v \div 16))
                    [] q = 2 -> A2B(s, i + 1, 3, v % 4, 0,
                                    Append(out, left * 16 + v \div 4))
                    [] q = 3 -> A2B(s, i + 1, 0, 0, 0,
                                    Append(out, left * 64 + v))

\* base64.b64decode(s): None is not bytes-like.
B64Decode(s) ==
    IF s = NoneVal THEN [ ok |-> FALSE, exc |-> "TypeError" ]
    ELSE A2B(s, 1, 0, 0, 0, << >>)

\* ------------------------------------------------------------------ backend contract
\* Names and subfolders the backend may assign to an upload.
Names == { << "a" >> }
Subfolders == { << >>, << "x" >> }
UploadResps == [ name : Names, subfolder : Subfolders ]

\* The file an upload response stands for, as the backend stores it.
BackendPath(resp) ==
    IF resp.subfolder = << >> THEN resp.name
    ELSE resp.subfolder \o << "/" >> \o resp.name

Paths == { BackendPath(resp) : resp \in UploadResps }

\* The correlation identifier the caller passes with operation r: opaque, and
\* unique per operation in flight.
TaskId(r) == 10 + r

\* ------------------------------------------------------------------ orchestrator values
NoRecord == [ client_task_id |-> 0, prompt_id |-> 0 ]
NoResp == [ name |-> << >>, subfolder |-> << >> ]
NoReply == [ status |-> "none", resp |-> NoResp, record |-> NoRecord ]

NoOutcome == [ type |-> "none", record |-> NoRecord, exc |-> "none", context |-> "none" ]
Return(rec) == [ type |-> "return", record |-> rec, exc |-> "none", context |-> "none" ]
Raise(e, ctx) == [ type |-> "raise", record |-> NoRecord, exc |-> e, context |-> ctx ]

Call(o, task, path, job, data) ==
    [ op |-> o, task |-> task, path |-> path, job |-> job, data |-> data,
      status |-> "pending" ]

\* The call a coroutine is suspended in is the last of its log.
Complete(log, st) == [ log EXCEPT ![Len(log)].status = st ]

\* ImagePath without the test of the subfolder: always subfolder/name.
ImagePath_AlwaysJoin(resp) == resp.subfolder \o << "/" >> \o resp.name

\* image_path = resp['name']; if resp['subfolder']: image_path = f"{subfolder}/{name}"
ImagePath(resp) ==
    IF resp.subfolder # << >> THEN resp.subfolder \o << "/" >> \o resp.name
    ELSE resp.name

\* Lines 32-33 for every text a caller can pass and every path an upload can
\* yield: the rendered prompt is a function of these two inputs alone.
Img2ImgPrompt ==
    [ text \in Texts, image \in { ImagePath(resp) : resp \in UploadResps } |->
        Render(IMG2IMG_PROMPT_TEMPLATE, [ text |-> text, image |-> image ]) ]

\* SubmitOutcome with the failure swallowed: whatever record there is, is
\* returned, also when queue_prompt failed.
SubmitOutcome_Partial(rep) == Return(rep.record)

\* What `await queue_prompt(...)` gives the coroutine: the record it returns
\* or the exception it raises.
SubmitOutcome(rep) ==
    IF rep.status = "ok" THEN Return(rep.record) ELSE Raise("SubmissionError", "none")

\* try: return <primary> finally: await clean_file(...).  An exception raised
\* in the finally block replaces the pending return value or exception, which
\* it keeps as its __context__.
Finally(primary, cleanStatus) ==
    IF cleanStatus \in { "ok", "failed" } THEN primary
    ELSE Raise(IF cleanStatus = "cancelled" THEN "CancelledError" ELSE "CleanupError",
               primary.exc)

vars == << pc, kind, client_task_id, params, image_path, prompt_json, reply,
           pending, result, calls, cancelled, store, asset, jobs >>

NoCancel == [ at |-> "none", asset |-> FALSE ]

Init ==
    /\ pc = [ r \in Reqs |-> "idle" ]
    /\ kind = [ r \in Reqs |-> "none" ]
    /\ client_task_id = [ r \in Reqs |-> 0 ]
    /\ params = [ r \in Reqs |-> [ text |-> NoneVal, image |-> NoneVal ] ]
    /\ image_path = [ r \in Reqs |-> << >> ]
    /\ prompt_json = [ r \in Reqs |-> << >> ]
    /\ reply = [ r \in Reqs |-> NoReply ]
    /\ pending = [ r \in Reqs |-> NoOutcome ]
    /\ result = [ r \in Reqs |-> NoOutcome ]
    /\ calls = [ r \in Reqs |-> << >> ]
    /\ cancelled = [ r \in Reqs |-> NoCancel ]
    /\ store = [ p \in Paths |-> 0 ]
    /\ asset = [ r \in Reqs |-> << >> ]
    /\ jobs = { }

\* The caller's arguments are bound when the operation is called.
Enter(r, k, tid, text, image) ==
    /\ pc[r] = "idle"
    /\ kind' = [ kind EXCEPT ![r] = k ]
    /\ client_task_id' = [ client_task_id EXCEPT ![r] = tid ]
    /\ params' = [ params EXCEPT ![r] = [ text |-> text, image |-> image ] ]

\* The coroutine ends: its return value or exception reaches the caller.
Exit(r, outcome) ==
    /\ pc' = [ pc EXCEPT ![r] = "done" ]
    /\ result' = [ result EXCEPT ![r] = outcome ]

\* The coroutine suspends in `await comfy_client.<call>`; log is its call log
\* so far.
Issue(r, at, log, call) ==
    /\ pc' = [ pc EXCEPT ![r] = at ]
    /\ calls' = [ calls EXCEPT ![r] = Append(log, call) ]
    /\ reply' = [ reply EXCEPT ![r] = NoReply ]

\* The awaited call of r is over, with status st.
Resumed(r, st) ==
    /\ calls' = [ calls EXCEPT ![r] = Complete(@, st) ]
    /\ reply' = [ reply EXCEPT ![r] = NoReply ]

LastCall(r) == calls[r][Len(calls[r])]

\* The indices of operation r's calls of backend operation o, in call order.
CallsOf(r, o) == { i \in 1 .. Len(calls[r]) : calls[r][i].op = o }

Count(r, o) == Cardinality(CallsOf(r, o))

\* ------------------------------------------------------------------ Service.text2img
\* Text2Img with the parse error swallowed: a prompt that does not parse is
\* submitted as an empty job.
Text2Img_SubmitUnparsed(r) ==
    \E tid \in { TaskId(r) }, text \in Texts :
        /\ Enter(r, "text2img", tid, text, NoneVal)
        /\ LET job == Render(TEXT2IMG_PROMPT_TEMPLATE, [ text |-> text ])
               val == IF job.ok THEN job.val ELSE << >>
           IN  /\ prompt_json' = [ prompt_json EXCEPT ![r] = val ]
               /\ Issue(r, "t_submit", calls[r],
                        Call("queue_prompt", tid, << >>, val, << >>))
               /\ UNCHANGED result
        /\ UNCHANGED << image_path, pending, cancelled, store, asset, jobs >>

\* Lines 13-17, up to the await of queue_prompt.
Text2Img(r) ==
    \E tid \in { TaskId(r) }, text \in Texts :
        /\ Enter(r, "text2img", tid, text, NoneVal)
        /\ LET job == Render(TEXT2IMG_PROMPT_TEMPLATE, [ text |-> text ])
           IN  IF job.ok
               THEN /\ prompt_json' = [ prompt_json EXCEPT ![r] = job.val ]
                    /\ Issue(r, "t_submit", calls[r],
                             Call("queue_prompt", tid, << >>, job.val, << >>))
                    /\ UNCHANGED result
               ELSE /\ Exit(r, Raise(job.exc, "none"))
                    /\ UNCHANGED << prompt_json, calls, reply >>
        /\ UNCHANGED << image_path, pending, cancelled, store, asset, jobs >>

\* Text2ImgReturn with a retry: a failed queue_prompt is submitted once more.
Text2ImgReturn_Retry(r) ==
    /\ pc[r] = "t_submit"
    /\ reply[r].status # "none"
    /\ IF reply[r].status = "err" /\ Len(calls[r]) = 1
       THEN /\ Issue(r, "t_submit", Complete(calls[r], "err"),
                     Call("queue_prompt", client_task_id[r], << >>, prompt_json[r], << >>))
            /\ UNCHANGED result
       ELSE /\ Exit(r, SubmitOutcome(reply[r]))
            /\ Resumed(r, reply[r].status)
    /\ UNCHANGED << kind, client_task_id, params, image_path, prompt_json,
                    pending, cancelled, store, asset, jobs >>

\* Line 17: queue_prompt's record is returned, its exception propagates.
Text2ImgReturn(r) ==
    /\ pc[r] = "t_submit"
    /\ reply[r].status # "none"
    /\ Exit(r, SubmitOutcome(reply[r]))
    /\ Resumed(r, reply[r].status)
    /\ UNCHANGED << kind, client_task_id, params, image_path, prompt_json,
                    pending, cancelled, store, asset, jobs >>

\* ------------------------------------------------------------------ Service.img2img
\* Img2Img with the decoding error swallowed: an image that does not decode
\* is uploaded as no bytes.
Img2Img_UploadUndecoded(r) ==
    \E tid \in { TaskId(r) }, text \in Texts, image \in Images :
        /\ Enter(r, "img2img", tid, text, image)
        /\ LET image_bytes == B64Decode(image)
           IN  /\ Issue(r, "i_upload", calls[r],
                        Call("upload_image", 0, << >>, << >>,
                             IF image_bytes.ok THEN image_bytes.bytes ELSE << >>))
               /\ UNCHANGED result
        /\ UNCHANGED << image_path, prompt_json, pending, cancelled, store, asset, jobs >>

\* Lines 20-26, up to the await of upload_image.
Img2Img(r) ==
    \E tid \in { TaskId(r) }, text \in Texts, image \in Images :
        /\ Enter(r, "img2img", tid, text, image)
        /\ LET image_bytes == B64Decode(image)
           IN  IF image_bytes.ok
               THEN /\ Issue(r, "i_upload", calls[r],
                             Call("upload_image", 0, << >>, << >>, image_bytes.bytes))
                    /\ UNCHANGED result
               ELSE /\ Exit(r, Raise(image_bytes.exc, "none"))
                    /\ UNCHANGED << calls, reply >>
        /\ UNCHANGED << image_path, prompt_json, pending, cancelled, store, asset, jobs >>

\* Img2ImgUploaded with the upload inside the try block: a failed upload runs
\* the finally block too.
Img2ImgUploaded_CleanOnError(r) ==
    /\ pc[r] = "i_upload"
    /\ reply[r].status # "none"
    /\ IF reply[r].status = "err"
       THEN /\ pending' = [ pending EXCEPT ![r] = Raise("UploadError", "none") ]
            /\ Issue(r, "i_clean", Complete(calls[r], "err"),
                     Call("clean_file", 0, image_path[r], << >>, << >>))
            /\ UNCHANGED << image_path, prompt_json, result >>
       ELSE LET path == ImagePath(reply[r].resp)
                job == Img2ImgPrompt[params[r].text, path]
            IN  /\ image_path' = [ image_path EXCEPT ![r] = path ]
                /\ UNCHANGED pending
                /\ IF job.ok
                   THEN /\ prompt_json' = [ prompt_json EXCEPT ![r] = job.val ]
                        /\ Issue(r, "i_submit", Complete(calls[r], "ok"),
                                 Call("queue_prompt", client_task_id[r], << >>,
                                      job.val, << >>))
                        /\ UNCHANGED result
                   ELSE /\ Exit(r, Raise(job.exc, "none"))
                        /\ Resumed(r, "ok")
                        /\ UNCHANGED prompt_json
    /\ UNCHANGED << kind, client_task_id, params, cancelled, store, asset, jobs >>

\* Img2ImgUploaded with the task id kept in one variable all operations
\* share: the job is tagged with the id of the latest operation called.
Img2ImgUploaded_SharedTaskId(r) ==
    /\ pc[r] = "i_upload"
    /\ reply[r].status # "none"
    /\ IF reply[r].status = "err"
       THEN /\ Exit(r, Raise("UploadError", "none"))
            /\ Resumed(r, "err")
            /\ UNCHANGED << image_path, prompt_json >>
       ELSE LET path == ImagePath(reply[r].resp)
                job == Img2ImgPrompt[params[r].text, path]
                called == { q \in Reqs : kind[q] # "none" }
                latest == CHOOSE q \in called : \A q2 \in called : q2 <= q
            IN  /\ image_path' = [ image_path EXCEPT ![r] = path ]
                /\ IF job.ok
                   THEN /\ prompt_json' = [ prompt_json EXCEPT ![r] = job.val ]
                        /\ Issue(r, "i_submit", Complete(calls[r], "ok"),
                                 Call("queue_prompt", client_task_id[latest], << >>,
                                      job.val, << >>))
                        /\ UNCHANGED result
                   ELSE /\ Exit(r, Raise(job.exc, "none"))
                        /\ Resumed(r, "ok")
                        /\ UNCHANGED prompt_json
    /\ UNCHANGED << kind, client_task_id, params, pending, cancelled, store, asset, jobs >>

\* Lines 26-35: upload_image has answered; compose the path, render the
\* prompt, and suspend in queue_prompt inside the try block.
Img2ImgUploaded(r) ==
    /\ pc[r] = "i_upload"
    /\ reply[r].status # "none"
    /\ IF reply[r].status = "err"
       THEN /\ Exit(r, Raise("UploadError", "none"))
            /\ Resumed(r, "err")
            /\ UNCHANGED << image_path, prompt_json >>
       ELSE LET path == ImagePath(reply[r].resp)
                job == Img2ImgPrompt[params[r].text, path]
            IN  /\ image_path' = [ image_path EXCEPT ![r] = path ]
                /\ IF job.ok
                   THEN /\ prompt_json' = [ prompt_json EXCEPT ![r] = job.val ]
                        /\ Issue(r, "i_submit", Complete(calls[r], "ok"),
                                 Call("queue_prompt", client_task_id[r], << >>,
                                      job.val, << >>))
                        /\ UNCHANGED result
                   ELSE /\ Exit(r, Raise(job.exc, "none"))
                        /\ Resumed(r, "ok")
                        /\ UNCHANGED prompt_json
    /\ UNCHANGED << kind, client_task_id, params, pending, cancelled, store, asset, jobs >>

\* CleanTarget with image_path kept in one variable all operations share: the
\* path of the latest operation that composed one.
CleanTarget_Shared(r) ==
    LET holders == { q \in Reqs : image_path[q] # << >> }
    IN  image_path[CHOOSE q \in holders : \A q2 \in holders : q2 <= q]

\* Line 38: the path clean_file is called with, the coroutine's own local.
CleanTarget(r) == image_path[r]

\* Img2ImgSubmitted without the finally block: clean_file is called only
\* after queue_prompt returned.
Img2ImgSubmitted_NoFinally(r) ==
    /\ pc[r] = "i_submit"
    /\ reply[r].status # "none"
    /\ IF reply[r].status = "ok"
       THEN /\ pending' = [ pending EXCEPT ![r] = SubmitOutcome(reply[r]) ]
            /\ Issue(r, "i_clean", Complete(calls[r], "ok"),
                     Call("clean_file", 0, CleanTarget(r), << >>, << >>))
            /\ UNCHANGED result
       ELSE /\ Exit(r, SubmitOutcome(reply[r]))
            /\ Resumed(r, "err")
            /\ UNCHANGED pending
    /\ UNCHANGED << kind, client_task_id, params, image_path, prompt_json,
                    cancelled, store, asset, jobs >>

\* Img2ImgSubmitted with a retry: a failed queue_prompt is submitted once
\* more.
Img2ImgSubmitted_RetryOnce(r) ==
    /\ pc[r] = "i_submit"
    /\ reply[r].status # "none"
    /\ IF reply[r].status = "err" /\ Count(r, "queue_prompt") = 1
       THEN /\ Issue(r, "i_submit", Complete(calls[r], "err"),
                     Call("queue_prompt", client_task_id[r], << >>, prompt_json[r], << >>))
            /\ UNCHANGED pending
       ELSE /\ pending' = [ pending EXCEPT ![r] = SubmitOutcome(reply[r]) ]
            /\ Issue(r, "i_clean", Complete(calls[r], reply[r].status),
                     Call("clean_file", 0, CleanTarget(r), << >>, << >>))
    /\ UNCHANGED << kind, client_task_id, params, image_path, prompt_json,
                    result, cancelled, store, asset, jobs >>

\* Lines 35-38: queue_prompt has answered; its outcome is held while the
\* finally block suspends in clean_file.
Img2ImgSubmitted(r) ==
    /\ pc[r] = "i_submit"
    /\ reply[r].status # "none"
    /\ pending' = [ pending EXCEPT ![r] = SubmitOutcome(reply[r]) ]
    /\ Issue(r, "i_clean", Complete(calls[r], reply[r].status),
             Call("clean_file", 0, CleanTarget(r), << >>, << >>))
    /\ UNCHANGED << kind, client_task_id, params, image_path, prompt_json,
                    result, cancelled, store, asset, jobs >>

\* Img2ImgCleaned with a retry: a failed clean_file is called once more.
Img2ImgCleaned_Retry(r) ==
    /\ pc[r] = "i_clean"
    /\ reply[r].status # "none"
    /\ IF reply[r].status = "err" /\ Count(r, "clean_file") = 1
       THEN /\ Issue(r, "i_clean", Complete(calls[r], "err"),
                     Call("clean_file", 0, CleanTarget(r), << >>, << >>))
            /\ UNCHANGED result
       ELSE /\ Exit(r, Finally(pending[r], reply[r].status))
            /\ Resumed(r, reply[r].status)
    /\ UNCHANGED << kind, client_task_id, params, image_path, prompt_json,
                    pending, cancelled, store, asset, jobs >>

\* Line 38: clean_file has answered; the finally block ends.
Img2ImgCleaned(r) ==
    /\ pc[r] = "i_clean"
    /\ reply[r].status # "none"
    /\ Exit(r, Finally(pending[r], reply[r].status))
    /\ Resumed(r, reply[r].status)
    /\ UNCHANGED << kind, client_task_id, params, image_path, prompt_json,
                    pending, cancelled, store, asset, jobs >>

\* ------------------------------------------------------------------ backend client
Answer(r, rep) == reply' = [ reply EXCEPT ![r] = rep ]

\* upload(bytes) -> {name, subfolder}, or UploadError.  A new file never takes
\* the path of a file the backend still holds.
UploadImage(r) ==
    /\ pc[r] = "i_upload"
    /\ reply[r].status = "none"
    /\ \/ \E resp \in UploadResps :
            /\ store[BackendPath(resp)] = 0
            /\ store' = [ store EXCEPT ![BackendPath(resp)] = r ]
            /\ asset' = [ asset EXCEPT ![r] = BackendPath(resp) ]
            /\ Answer(r, [ NoReply EXCEPT !.status = "ok", !.resp = resp ])
       \/ /\ Answer(r, [ NoReply EXCEPT !.status = "err" ])
          /\ UNCHANGED << store, asset >>
    /\ UNCHANGED << pc, kind, client_task_id, params, image_path, prompt_json,
                    pending, result, calls, cancelled, jobs >>

\* submit(job, correlationId) -> record binding the correlation identifier to
\* the backend's job identifier, or SubmissionError.
QueuePrompt(r) ==
    /\ pc[r] \in { "t_submit", "i_submit" }
    /\ reply[r].status = "none"
    /\ \/ LET rec == [ client_task_id |-> LastCall(r).task,
                       prompt_id |-> Cardinality(jobs) + 1 ]
          IN  /\ jobs' = jobs \cup { [ record |-> rec, job |-> LastCall(r).job ] }
              /\ Answer(r, [ NoReply EXCEPT !.status = "ok", !.record = rec ])
       \/ /\ Answer(r, [ NoReply EXCEPT !.status = "err" ])
          /\ UNCHANGED jobs
    /\ UNCHANGED << pc, kind, client_task_id, params, image_path, prompt_json,
                    pending, result, calls, cancelled, store, asset >>

\* deleteUploadedFile(path) -> success or failure.  A failure reaches the
\* coroutine as an exception ("err") or as a returned value ("failed").
CleanFile(r) ==
    /\ pc[r] = "i_clean"
    /\ reply[r].status = "none"
    /\ LET path == LastCall(r).path
       IN  \/ /\ path \in Paths
              /\ store[path] # 0
              /\ store' = [ store EXCEPT ![path] = 0 ]
              /\ Answer(r, [ NoReply EXCEPT !.status = "ok" ])
           \/ /\ Answer(r, [ NoReply EXCEPT !.status = "err" ])
              /\ UNCHANGED store
           \/ /\ Answer(r, [ NoReply EXCEPT !.status = "failed" ])
              /\ UNCHANGED store
    /\ UNCHANGED << pc, kind, client_task_id, params, image_path, prompt_json,
                    pending, result, calls, cancelled, asset, jobs >>

\* ------------------------------------------------------------------ cancellation
\* The caller cancels the task: CancelledError is raised at the await the
\* coroutine is suspended in, and the awaited call is abandoned.
Cancel(r) ==
    /\ pc[r] \in { "t_submit", "i_upload", "i_submit", "i_clean" }
    /\ cancelled' = [ cancelled EXCEPT ![r] =
                        IF @.at = "none"
                        THEN [ at |-> pc[r],
                               asset |-> asset[r] # << >> /\ store[asset[r]] = r ]
                        ELSE @ ]
    /\ CASE pc[r] \in { "t_submit", "i_upload" } ->
              /\ Exit(r, Raise("CancelledError", "none"))
              /\ Resumed(r, "cancelled")
              /\ UNCHANGED pending
         [] pc[r] = "i_submit" ->
              /\ pending' = [ pending EXCEPT ![r] = Raise("CancelledError", "none") ]
              /\ Issue(r, "i_clean", Complete(calls[r], "cancelled"),
                       Call("clean_file", 0, CleanTarget(r), << >>, << >>))
              /\ UNCHANGED result
         [] pc[r] = "i_clean" ->
              /\ Exit(r, Finally(pending[r], "cancelled"))
              /\ Resumed(r, "cancelled")
              /\ UNCHANGED pending
    /\ UNCHANGED << kind, client_task_id, params, image_path, prompt_json,
                    store, asset, jobs >>

\* ------------------------------------------------------------------ specifications
Next ==
    \E r \in Reqs :
        \/ Text2Img(r)
        \/ Text2ImgReturn(r)
        \/ Img2Img(r)
        \/ Img2ImgUploaded(r)
        \/ Img2ImgSubmitted(r)
        \/ Img2ImgCleaned(r)
        \/ UploadImage(r)
        \/ QueuePrompt(r)
        \/ CleanFile(r)

Spec == Init /\ [][Next]_vars

NextCancel == Next \/ \E r \in Reqs : Cancel(r)

SpecCancel == Init /\ [][NextCancel]_vars

\* A step of an operation that has been called: an answer of the backend to
\* its call, or the resumption of its coroutine.
Progress ==
    \E r \in Reqs :
        \/ UploadImage(r)
        \/ QueuePrompt(r)
        \/ CleanFile(r)
        \/ Text2ImgReturn(r)
        \/ Img2ImgUploaded(r)
        \/ Img2ImgSubmitted(r)
        \/ Img2ImgCleaned(r)

\* Every backend call is eventually answered, and the event loop eventually
\* resumes a coroutine whose awaited call has been answered: the system does
\* not stop while such a step is possible.
Fairness == WF_vars(Progress)

SpecLive == Spec /\ Fairness

\* ------------------------------------------------------------------ properties
\* Operation r's call of o has come back to the coroutine with status st.
Came(r, o, st) == \E i \in CallsOf(r, o) : calls[r][i].status = st

\* clean_file has been called for path.
CleanCalledFor(r, path) == \E i \in CallsOf(r, "clean_file") : calls[r][i].path = path

\* The value of the image member of a rendered job.
JobImage(job) ==
    LET ks == { k \in 1 .. Len(job) : job[k][1] = << "i" >> }
    IN  IF ks = { } THEN << "<absent>" >>
        ELSE job[CHOOSE k \in ks : \A k2 \in ks : k2 <= k][2]

RenderFailed(r) ==
    /\ pc[r] = "done"
    /\ result[r].exc \in { "JSONDecodeError", "KeyError" }

\* C1: in no terminal state of img2img does an asset that a successful upload
\* created exist for which clean_file was never called.
C1_EveryAssetDeleteIssued ==
    \A r \in Reqs :
        (pc[r] = "done" /\ Came(r, "upload_image", "ok"))
            => CleanCalledFor(r, asset[r])

\* C2: when rendering fails after a successful upload, clean_file is called
\* for the uploaded path before img2img ends, and queue_prompt is not called.
C2_RenderFailureStillCleans ==
    \A r \in Reqs :
        (kind[r] = "img2img" /\ RenderFailed(r))
            => /\ Count(r, "queue_prompt") = 0
               /\ CleanCalledFor(r, asset[r])

\* C3: when queue_prompt fails after a successful upload, clean_file is called
\* exactly once, for the uploaded path and after queue_prompt, and no later
\* than the error reaching the caller.
C3_SubmitFailureCleansOnce ==
    \A r \in Reqs :
        (kind[r] = "img2img" /\ Came(r, "queue_prompt", "err"))
            => /\ Count(r, "clean_file") = 1
               /\ \A i \in CallsOf(r, "clean_file") :
                    /\ calls[r][i].path = asset[r]
                    /\ \A j \in CallsOf(r, "queue_prompt") : j < i
               /\ pc[r] = "done" => result[r].type = "raise"

C3_Witness ==
    \E r \in Reqs :
        /\ pc[r] = "done"
        /\ Came(r, "upload_image", "ok")
        /\ Came(r, "queue_prompt", "err")
        /\ result[r].type = "raise"

\* C4: when clean_file fails after a successful queue_prompt, img2img returns
\* the record queue_prompt produced.
C4_CleanupFailureKeepsRecord ==
    \A r \in Reqs :
        ( /\ pc[r] = "done"
          /\ Came(r, "queue_prompt", "ok")
          /\ Came(r, "clean_file", "err") \/ Came(r, "clean_file", "failed") )
            => /\ result[r].type = "return"
               /\ \E j \in jobs : j.record = result[r].record

\* C5: when queue_prompt fails and clean_file fails too, the error that
\* reaches the caller is the submission error.
C5_CleanupErrorNeverMasks ==
    \A r \in Reqs :
        ( /\ pc[r] = "done"
          /\ Came(r, "queue_prompt", "err")
          /\ Came(r, "clean_file", "err") \/ Came(r, "clean_file", "failed") )
            => /\ result[r].type = "raise"
               /\ result[r].exc = "SubmissionError"

\* One upload, then one submit, then one delete for the path rendered into the
\* job, the delete issued only once submit has completed.
OneOfEachInOrder(r) ==
    /\ Count(r, "upload_image") = 1
    /\ Count(r, "queue_prompt") = 1
    /\ Count(r, "clean_file") = 1
    /\ \A u \in CallsOf(r, "upload_image"), q \in CallsOf(r, "queue_prompt"),
          c \in CallsOf(r, "clean_file") :
            /\ u < q
            /\ q < c
            /\ calls[r][q].status # "pending"
            /\ calls[r][c].path = JobImage(calls[r][q].job)
            /\ calls[r][c].path = asset[r]

C7_UploadFailureAborts ==
    \A r \in Reqs :
        Came(r, "upload_image", "err")
            => /\ Count(r, "queue_prompt") = 0
               /\ Count(r, "clean_file") = 0
               /\ pc[r] = "done"
               /\ result[r] = Raise("UploadError", "none")

C7_Witness ==
    \E r \in Reqs : pc[r] = "done" /\ Came(r, "upload_image", "err")

\* C8: when img2img is cancelled at a suspension point after its asset exists
\* at the backend, a clean_file call for the asset has run to completion by
\* the time the operation exits.
C8_CleanupSurvivesCancel ==
    \A r \in Reqs :
        (pc[r] = "done" /\ cancelled[r].at # "none" /\ cancelled[r].asset)
            => \E i \in CallsOf(r, "clean_file") :
                  /\ calls[r][i].path = asset[r]
                  /\ calls[r][i].status \in { "ok", "err", "failed" }

\* C9: under every interleaving, each operation's job and delete name the
\* asset its own upload created, that asset is still the operation's own file
\* at the backend until the operation's delete acts, and two operations in
\* flight never hold the same asset.
C9_AssetsAreRequestLocal ==
    \A r \in Reqs :
        /\ \A q \in CallsOf(r, "queue_prompt") :
             kind[r] = "img2img" => JobImage(calls[r][q].job) = asset[r]
        /\ \A c \in CallsOf(r, "clean_file") : calls[r][c].path = asset[r]
        /\ (pc[r] = "i_submit" \/ (pc[r] = "i_clean" /\ reply[r].status = "none"))
             => /\ store[asset[r]] = r
                /\ \A r2 \in Reqs \ { r } :
                     (pc[r2] = "i_submit" \/ (pc[r2] = "i_clean" /\ reply[r2].status = "none"))
                        => asset[r2] # asset[r]

\* One operation's delete has acted at the backend while another operation
\* is suspended in queue_prompt with a job that names its own asset.
C9_Witness ==
    \E r1, r2 \in Reqs :
        /\ r1 # r2
        /\ pc[r1] = "i_submit"
        /\ pc[r2] = "i_clean"
        /\ reply[r2].status = "ok"
        /\ store[asset[r1]] = r1
        /\ JobImage(prompt_json[r1]) = asset[r1]

\* C10: a text2img whose text renders calls queue_prompt exactly once, with
\* the rendered job, and a text2img never calls upload_image or clean_file.
C10_Text2ImgSubmitsOnce ==
    \A r \in Reqs :
        kind[r] = "text2img" =>
            LET job == Render(TEXT2IMG_PROMPT_TEMPLATE, [ text |-> params[r].text ])
            IN  /\ Count(r, "upload_image") = 0
                /\ Count(r, "clean_file") = 0
                /\ job.ok => /\ Count(r, "queue_prompt") = 1
                             /\ calls[r][1].job = job.val
                             /\ prompt_json[r] = job.val

C10_Witness ==
    \E r \in Reqs :
        /\ kind[r] = "text2img"
        /\ pc[r] = "done"
        /\ result[r].type = "return"
        /\ Len(calls[r]) = 1

\* The rendering operation r performs, once its inputs are known: text2img
\* renders its text, img2img its text and the path it composed.
RenderOf(r) ==
    IF kind[r] = "text2img"
    THEN Render(TEXT2IMG_PROMPT_TEMPLATE, [ text |-> params[r].text ])
    ELSE Render(IMG2IMG_PROMPT_TEMPLATE,
                [ text |-> params[r].text, image |-> image_path[r] ])

\* C11: an operation whose rendering fails never calls queue_prompt and no
\* job of it is accepted; a text2img whose rendering fails makes no backend
\* call at all and ends with the rendering error.
C11_FailedRenderNeverSubmitted ==
    \A r \in Reqs :
        ( /\ kind[r] = "text2img" \/ (kind[r] = "img2img" /\ image_path[r] # << >>)
          /\ ~RenderOf(r).ok )
            => /\ Count(r, "queue_prompt") = 0
               /\ \A j \in jobs : j.record.client_task_id # client_task_id[r]
               /\ RenderFailed(r)
               /\ kind[r] = "text2img" => Len(calls[r]) = 0

C11_Witness ==
    \E r1, r2 \in Reqs :
        /\ kind[r1] = "text2img" /\ RenderFailed(r1)
        /\ kind[r2] = "img2img" /\ RenderFailed(r2) /\ Came(r2, "upload_image", "ok")

\* C12: no operation calls upload_image, queue_prompt or clean_file more than
\* once, whatever the outcomes, and a record reaches the caller only when
\* queue_prompt succeeded, and then it is a record the backend issued.
C12_NoRetryNoPartialRecord ==
    \A r \in Reqs :
        /\ Count(r, "upload_image") <= 1
        /\ Count(r, "queue_prompt") <= 1
        /\ Count(r, "clean_file") <= 1
        /\ result[r].type = "return"
             => /\ Came(r, "queue_prompt", "ok")
                /\ \E j \in jobs : j.record = result[r].record

\* An img2img has ended after a failed submit and a failed delete, and a
\* text2img after a failed submit.
C12_Witness ==
    \E r1, r2 \in Reqs :
        /\ pc[r1] = "done" /\ kind[r1] = "img2img"
        /\ Came(r1, "queue_prompt", "err") /\ Came(r1, "clean_file", "err")
        /\ pc[r2] = "done" /\ kind[r2] = "text2img"
        /\ Came(r2, "queue_prompt", "err")

\* C13: every queue_prompt call of an operation carries the task id its
\* caller passed, and a record that reaches the caller is the one the backend
\* issued for that operation's own job under that id; no two operations get
\* the same record.
C13_Correlation ==
    \A r \in Reqs :
        /\ \A q \in CallsOf(r, "queue_prompt") : calls[r][q].task = TaskId(r)
        /\ result[r].type = "return"
             => /\ result[r].record.client_task_id = TaskId(r)
                /\ [ record |-> result[r].record, job |-> prompt_json[r] ] \in jobs
                /\ \A r2 \in Reqs \ { r } : result[r2].record # result[r].record

\* A text2img and an img2img, run concurrently, have both returned a record.
C13_Witness ==
    \E r1, r2 \in Reqs :
        /\ kind[r1] = "text2img" /\ result[r1].type = "return"
        /\ kind[r2] = "img2img" /\ result[r2].type = "return"
        /\ result[r1].record.prompt_id = 2

\* The step in which img2img takes the answer {name, subfolder} of a
\* successful upload: the path it composes, and renders into the image member
\* of the job it submits, is name alone for an empty subfolder and
\* subfolder/name otherwise.
C14_ComposeStep ==
    \A r \in Reqs :
        (pc[r] = "i_upload" /\ reply[r].status = "ok" /\ pc'[r] # "i_upload")
            => LET resp == reply[r].resp
                   want == IF resp.subfolder = << >> THEN resp.name
                           ELSE resp.subfolder \o << "/" >> \o resp.name
               IN  /\ image_path'[r] = want
                   /\ pc'[r] = "i_submit"
                        => /\ JobImage(prompt_json'[r]) = want
                           /\ JobImage(calls'[r][Len(calls'[r])].job) = want

\* C14: for every upload response {name, subfolder}, the path substituted for
\* the image placeholder and passed to clean_file is subfolder/name when the
\* subfolder is non-empty and name alone when it is empty ({a, x} gives x/a,
\* {a, ""} gives a).
C14_PathComposition ==
    /\ [][C14_ComposeStep]_vars
    /\ [](\A r \in Reqs :
            /\ image_path[r] \in { << >>, << "a" >>, << "x", "/", "a" >> }
            /\ \A c \in CallsOf(r, "clean_file") : calls[r][c].path = image_path[r])

\* Both shapes of response have been composed, submitted and passed to
\* clean_file.
C14_Witness ==
    \E r1, r2 \in Reqs :
        /\ image_path[r1] = << "a" >> /\ Count(r1, "clean_file") = 1
        /\ image_path[r2] = << "x", "/", "a" >> /\ Count(r2, "clean_file") = 1

\* The value of the text member of a rendered job.
JobText(job) ==
    LET ks == { k \in 1 .. Len(job) : job[k][1] = << "t" >> }
    IN  IF ks = { } THEN << "<absent>" >>
        ELSE job[CHOOSE k \in ks : \A k2 \in ks : k2 <= k][2]

\* The member names of a rendered job, in order.
JobKeys(job) == [ k \in 1 .. Len(job) |-> job[k][1] ]

\* C15: for every caller text, special characters included, rendering
\* succeeds, and the job submitted has the text, literally, as its text
\* member and the template's members and no others.
C15_RenderEscapesText ==
    \A r \in Reqs :
        /\ (kind[r] = "text2img" \/ (kind[r] = "img2img" /\ image_path[r] # << >>))
             => RenderOf(r).ok
        /\ \A q \in CallsOf(r, "queue_prompt") :
             /\ JobText(calls[r][q].job) = params[r].text
             /\ JobKeys(calls[r][q].job) =
                    IF kind[r] = "text2img" THEN << << "t" >> >>
                    ELSE << << "t" >>, << "i" >> >>

\* Operation r has rendered a job and submitted it.
Rendered(r) == Count(r, "queue_prompt") = 1

SameRenderInputs(r1, r2) ==
    /\ kind[r1] # "none"
    /\ kind[r1] = kind[r2]
    /\ params[r1].text = params[r2].text
    /\ image_path[r1] = image_path[r2]

C17_DecodeBeforeUpload ==
    \A r \in Reqs :
        (kind[r] = "img2img" /\ ~B64Decode(params[r].image).ok)
            => /\ pc[r] = "done"
               /\ result[r].type = "raise"
               /\ result[r].exc = IF params[r].image = NoneVal THEN "TypeError"
                                  ELSE "binascii.Error"
               /\ calls[r] = << >>
               /\ asset[r] = << >>
               /\ \A p \in Paths : store[p] # r

\* One img2img was called without an image and one with the truncated "QQ".
C17_Witness ==
    \E r1, r2 \in Reqs :
        /\ kind[r1] = "img2img" /\ params[r1].image = NoneVal /\ pc[r1] = "done"
        /\ kind[r2] = "img2img" /\ params[r2].image = << "Q", "Q" >>
        /\ result[r2].exc = "binascii.Error"

\* C18: every operation that was called eventually ends, with a record or an
\* exception for its caller, and by then text2img has made at most one backend
\* call and img2img at most three.
C18_Termination ==
    /\ \A r \in Reqs : (pc[r] # "idle") ~> (pc[r] = "done")
    /\ [](\A r \in Reqs :
            /\ Len(calls[r]) <= IF kind[r] = "text2img" THEN 1 ELSE 3
            /\ pc[r] = "done" <=> result[r].type \in { "return", "raise" })

\* A text2img has ended after one backend call and an img2img after three.
C18_Witness ==
    \E r1, r2 \in Reqs :
        /\ kind[r1] = "text2img" /\ pc[r1] = "done" /\ Len(calls[r1]) = 1
        /\ kind[r2] = "img2img" /\ pc[r2] = "done" /\ Len(calls[r2]) = 3

====
